---- MODULE Spec2Model ----
(***************************************************************************)
(* Call-center simulation (CallCenterSimulation.py) on SimPy.              *)
(*                                                                         *)
(* One replication is an event loop: Environment.run pops the earliest     *)
(* event of the heap (time, priority, event id) and runs its callbacks,    *)
(* which resume the generator processes setup, customer and serve.  Every  *)
(* action below is the processing of one event, with the whole resumed     *)
(* generator step it triggers.  Time is in whole minutes; the exponential   *)
(* draws are inputs taken from small sets that include 0, a value          *)
(* random.expovariate can return.                                          *)
(***************************************************************************)
EXTENDS Integers, Sequences, FiniteSets

VARIABLES
    num_agents,     \* run_scenario's num_agents (capacity of the pool)
    replications,   \* run_scenario's replications
    r,              \* replication index of run_scenario's for loop
    phase,          \* "start" (top of the loop body), "running" (inside env.run), "returned"
    all_results,    \* run_scenario's all_results
    now,            \* env.now
    queue,          \* env._queue: the scheduled events
    eid,            \* env._eid: next event id
    users,          \* call_center.agent.users: requests holding an agent
    put_queue,      \* call_center.agent.put_queue: pending requests
    wait_times,     \* wait_times list of the replication
    busy_times,     \* call_center.busy_times
    customer_id,    \* setup's customer_id
    pc,             \* position of each customer process
    arrival_time,   \* customer's arrival_time
    usage_since,    \* request.usage_since: clock time of the grant
    wait,           \* customer's wait
    start_busy,     \* customer's start_busy
    service_time,   \* serve's service_time
    inter_arrival,  \* setup's inter_arrival: the gaps drawn so far, in order
    arrival_rate,   \* sign of run_scenario's arrival_rate_per_hour (-1, 0, 1)
    rng_pos,        \* random: number of draws since random.seed
    stream,         \* random: per seed RANDOM_SEED + r, the values of its stream
                    \* that a later call of run_scenario draws again
    scenarios,      \* __main__: agent counts of the scenarios still to run
    outcomes        \* __main__: what the finished calls of run_scenario returned

vars == <<num_agents, replications, r, phase, all_results, now, queue, eid, users, put_queue,
          wait_times, busy_times, customer_id, pc, arrival_time, usage_since,
          wait, start_busy, service_time, inter_arrival, arrival_rate, rng_pos,
          stream, scenarios, outcomes>>

rng == <<rng_pos, stream>>
main == <<arrival_rate, scenarios, outcomes>>

(* Bounds of the model.  Horizon stands for SIM_HOURS * 60 minutes *)
Horizon == 3
MaxCustomers == 4
MaxGap == 1
MaxService == 2
MaxAgents == 2

CustIds == 0 .. (MaxCustomers - 1)
(* a local of a customer process that is not bound yet *)
Unset == -1
NoCust == Unset

RECURSIVE SumSeq(_)
SumSeq(s) == IF s = <<>> THEN 0 ELSE Head(s) + SumSeq(Tail(s))

RECURSIVE SumBusy(_)
SumBusy(s) == IF s = <<>> THEN 0 ELSE (Head(s)[2] - Head(s)[1]) + SumBusy(Tail(s))

RemoveFirst(s, x) ==
    IF \E i \in 1 .. Len(s) : s[i] = x
    THEN LET i == CHOOSE j \in 1 .. Len(s) : s[j] = x /\ \A k \in 1 .. (j - 1) : s[k] # x
         IN  SubSeq(s, 1, i - 1) \o SubSeq(s, i + 1, Len(s))
    ELSE s

BeforeFifo(e, f) ==
    \/ e.time < f.time
    \/ e.time = f.time /\ e.eid < f.eid

(* heap order of env._queue: (time, priority, eid); URGENT sorts before NORMAL *)
Before(e, f) ==
    \/ e.time < f.time
    \/ e.time = f.time /\ e.urgent /\ ~f.urgent
    \/ e.time = f.time /\ e.urgent = f.urgent /\ e.eid < f.eid

NextEvent == CHOOSE e \in queue : \A f \in queue : f = e \/ Before(e, f)

Event(t, urgent, id, kind, c) ==
    [time |-> t, urgent |-> urgent, eid |-> id, kind |-> kind, cust |-> c]

(* random.expovariate draws, in whole minutes, 0 included.  A gap can exceed
   the rest of the horizon (the value Horizon).  Once MaxCustomers customers
   are spawned the next gap is drawn past the horizon, which keeps the number
   of customers of a replication bounded.  With a negative rate expovariate
   returns a value <= 0 *)
CustomerCap == MaxCustomers \div replications
InterArrivalDraws(id) ==
    IF arrival_rate < 0
    THEN IF id < CustomerCap THEN {-1, 0} ELSE {-1}
    ELSE IF id < CustomerCap THEN (0 .. MaxGap) \cup {Horizon} ELSE {Horizon}
ServiceDraws == 0 .. MaxService

(* random: the seeded stream.  A value already drawn for this seed by an
   earlier call of run_scenario is drawn again at the same position *)
Replaying == r + 1 <= Len(stream) /\ rng_pos < Len(stream[r + 1])
Drawn(fresh) == IF Replaying THEN {stream[r + 1][rng_pos + 1]} ELSE fresh
Consume(d) ==
    /\ rng_pos' = rng_pos + 1
    /\ stream' = IF scenarios # <<>> /\ ~Replaying
                 THEN [stream EXCEPT ![r + 1] = Append(@, d)]
                 ELSE stream

DoPutOffByOne(us) == Len(us) <= num_agents

DoPutKeepsOneFree(us) == Len(us) < num_agents - 1

(* Resource._do_put: grant when a unit is free *)
DoPut(us) == Len(us) < num_agents

TriggerPutLast(us, pq) ==
    IF pq # <<>> /\ DoPut(us)
    THEN [users |-> Append(us, pq[Len(pq)]), put_queue |-> SubSeq(pq, 1, Len(pq) - 1),
          granted |-> {pq[Len(pq)]}]
    ELSE [users |-> us, put_queue |-> pq, granted |-> {}]

(* BaseResource._trigger_put: tries the head of put_queue, once *)
TriggerPut(us, pq) ==
    IF pq # <<>> /\ DoPut(us)
    THEN [users |-> Append(us, Head(pq)), put_queue |-> Tail(pq), granted |-> {Head(pq)}]
    ELSE [users |-> us, put_queue |-> pq, granted |-> {}]

(* before run_scenario's loop: nothing run, nothing recorded *)
NothingRun ==
    /\ r = 0
    /\ phase = "start"
    /\ all_results = <<>>
    /\ now = 0
    /\ queue = {}
    /\ eid = 0
    /\ users = <<>>
    /\ put_queue = <<>>
    /\ wait_times = <<>>
    /\ busy_times = <<>>
    /\ customer_id = 0
    /\ pc = [c \in CustIds |-> "none"]
    /\ arrival_time = [c \in CustIds |-> Unset]
    /\ usage_since = [c \in CustIds |-> Unset]
    /\ wait = [c \in CustIds |-> Unset]
    /\ start_busy = [c \in CustIds |-> Unset]
    /\ service_time = [c \in CustIds |-> Unset]
    /\ inter_arrival = <<>>
    /\ rng_pos = 0
    /\ stream = <<>>
    /\ outcomes = <<>>

(* one call run_scenario(num_agents, arrival_rate_per_hour, replications) with
   a valid configuration *)
Init ==
    /\ num_agents \in 1 .. MaxAgents
    /\ replications = 1
    /\ arrival_rate = 1
    /\ scenarios = <<>>
    /\ NothingRun

UntilEventLate == Event(Horizon + 1, TRUE, 1, "stop", NoCust)

(* env.run(until=SIM_HOURS * 60): the stop event, URGENT at the horizon *)
UntilEvent == Event(Horizon, TRUE, 1, "stop", NoCust)

BeginReplicationSharedLists ==
    /\ phase = "start"
    /\ r < replications
    /\ phase' = IF num_agents <= 0 THEN "raised" ELSE "running"
    /\ now' = 0
    /\ queue' = IF num_agents <= 0
                THEN {}
                ELSE { Event(0, TRUE, 0, "init_setup", NoCust), UntilEvent }
    /\ eid' = IF num_agents <= 0 THEN 0 ELSE 2
    /\ users' = <<>>
    /\ put_queue' = <<>>
    /\ customer_id' = 0
    /\ pc' = [c \in CustIds |-> "none"]
    /\ arrival_time' = [c \in CustIds |-> Unset]
    /\ usage_since' = [c \in CustIds |-> Unset]
    /\ wait' = [c \in CustIds |-> Unset]
    /\ start_busy' = [c \in CustIds |-> Unset]
    /\ service_time' = [c \in CustIds |-> Unset]
    /\ inter_arrival' = <<>>
    /\ rng_pos' = 0
    /\ stream' = IF Len(stream) < r + 1 THEN Append(stream, <<>>) ELSE stream
    /\ UNCHANGED <<num_agents, replications, r, all_results, wait_times, busy_times, main>>

(* run_scenario, loop body up to env.run: random.seed(RANDOM_SEED + r), fresh
   env, call_center, wait_times; env.process(setup) schedules its Initialize,
   env.run(until) the stop event.  simpy.Resource raises ValueError for a
   capacity <= 0: run_scenario ends there, with the new env untouched *)
BeginReplication ==
    /\ phase = "start"
    /\ r < replications
    /\ phase' = IF num_agents <= 0 THEN "raised" ELSE "running"
    /\ now' = 0
    /\ queue' = IF num_agents <= 0
                THEN {}
                ELSE { Event(0, TRUE, 0, "init_setup", NoCust), UntilEvent }
    /\ eid' = IF num_agents <= 0 THEN 0 ELSE 2
    /\ users' = <<>>
    /\ put_queue' = <<>>
    /\ wait_times' = <<>>
    /\ busy_times' = <<>>
    /\ customer_id' = 0
    /\ pc' = [c \in CustIds |-> "none"]
    /\ arrival_time' = [c \in CustIds |-> Unset]
    /\ usage_since' = [c \in CustIds |-> Unset]
    /\ wait' = [c \in CustIds |-> Unset]
    /\ start_busy' = [c \in CustIds |-> Unset]
    /\ service_time' = [c \in CustIds |-> Unset]
    /\ inter_arrival' = <<>>
    /\ rng_pos' = 0
    /\ stream' = IF Len(stream) < r + 1 THEN Append(stream, <<>>) ELSE stream
    /\ UNCHANGED <<num_agents, replications, r, all_results, main>>

Popped(kind) ==
    /\ phase = "running"
    /\ queue # {}
    /\ NextEvent.kind = kind

SetupLoopAbsolute(q, t, id, cid) ==
    IF t < Horizon
    THEN IF arrival_rate = 0
         THEN /\ queue' = q \cup {Event(t, FALSE, id, "proc_failed", NoCust)}
              /\ rng_pos' = rng_pos + 1
              /\ UNCHANGED <<stream, inter_arrival>>
         ELSE \E d \in Drawn(InterArrivalDraws(cid)) :
                /\ cid >= CustomerCap => (d < 0 \/ d >= Horizon)
                /\ Consume(d)
                /\ inter_arrival' = Append(inter_arrival, d)
                /\ queue' = q \cup {IF d < 0
                                    THEN Event(t, FALSE, id, "proc_failed", NoCust)
                                    ELSE Event(IF d < t THEN t ELSE d, FALSE, id,
                                               "arrival", NoCust)}
    ELSE /\ queue' = q \cup {Event(t, FALSE, id, "proc_done", NoCust)}
         /\ UNCHANGED <<rng, inter_arrival>>

(* setup's loop from its top: test the horizon, draw, yield the timeout;
   past the horizon the generator ends and its Process event is scheduled.
   expovariate(0) raises ZeroDivisionError and env.timeout of a negative
   delay raises ValueError: the setup process fails, and its failed Process
   event is scheduled *)
SetupLoop(q, t, id, cid) ==
    IF t < Horizon
    THEN IF arrival_rate = 0
         THEN /\ queue' = q \cup {Event(t, FALSE, id, "proc_failed", NoCust)}
              /\ rng_pos' = rng_pos + 1
              /\ UNCHANGED <<stream, inter_arrival>>
         ELSE \E d \in Drawn(InterArrivalDraws(cid)) :
                /\ cid >= CustomerCap => (d < 0 \/ t + d >= Horizon)
                /\ Consume(d)
                /\ inter_arrival' = Append(inter_arrival, d)
                /\ queue' = q \cup {IF d < 0
                                    THEN Event(t, FALSE, id, "proc_failed", NoCust)
                                    ELSE Event(t + d, FALSE, id, "arrival", NoCust)}
    ELSE /\ queue' = q \cup {Event(t, FALSE, id, "proc_done", NoCust)}
         /\ UNCHANGED <<rng, inter_arrival>>

(* Initialize(setup) processed: setup runs to its first yield *)
StartSetup ==
    /\ Popped("init_setup")
    /\ LET e == NextEvent IN
        /\ now' = e.time
        /\ SetupLoop(queue \ {e}, e.time, eid, customer_id)
        /\ eid' = eid + 1
    /\ UNCHANGED <<num_agents, replications, r, phase, all_results, users, put_queue, wait_times,
                   busy_times, customer_id, pc, arrival_time, usage_since, wait,
                   start_busy, service_time, main>>

(* setup's timeout processed: spawn customer(customer_id), count, loop *)
Arrival ==
    /\ Popped("arrival")
    /\ LET e == NextEvent
           c == customer_id IN
        /\ now' = e.time
        /\ pc' = [pc EXCEPT ![c] = "spawned"]
        /\ customer_id' = customer_id + 1
        /\ SetupLoop((queue \ {e}) \cup {Event(e.time, TRUE, eid, "init_customer", c)},
                     e.time, eid + 1, customer_id + 1)
        /\ eid' = eid + 2
    /\ UNCHANGED <<num_agents, replications, r, phase, all_results, users, put_queue, wait_times,
                   busy_times, arrival_time, usage_since, wait, start_busy, service_time, main>>

(* Initialize(customer) processed: arrival_time = env.now; agent.request()
   appends the request to put_queue and triggers the head of the queue; a
   granted request is stamped (usage_since) and its event scheduled; the
   customer suspends on `yield request` *)
StartCustomer ==
    /\ Popped("init_customer")
    /\ LET e == NextEvent
           c == e.cust
           tp == TriggerPut(users, Append(put_queue, c)) IN
        /\ now' = e.time
        /\ arrival_time' = [arrival_time EXCEPT ![c] = e.time]
        /\ users' = tp.users
        /\ put_queue' = tp.put_queue
        /\ usage_since' = [g \in CustIds |->
                              IF g \in tp.granted THEN e.time ELSE usage_since[g]]
        /\ queue' = (queue \ {e}) \cup {Event(e.time, FALSE, eid, "request", g) : g \in tp.granted}
        /\ eid' = eid + Cardinality(tp.granted)
        /\ pc' = [pc EXCEPT ![c] = IF c \in tp.granted THEN "requested" ELSE "queued"]
    /\ UNCHANGED <<num_agents, replications, r, phase, all_results, wait_times, busy_times,
                   customer_id, wait, start_busy, service_time, inter_arrival, rng, main>>

WaitFromZero(t, arrival) == t

(* customer: wait = env.now - arrival_time *)
WaitOf(t, arrival) == t - arrival

(* the request event processed: the customer resumes after `yield request`,
   records its wait and start_busy and starts the serve process *)
RequestGranted ==
    /\ Popped("request")
    /\ LET e == NextEvent
           c == e.cust IN
        /\ now' = e.time
        /\ wait' = [wait EXCEPT ![c] = WaitOf(e.time, arrival_time[c])]
        /\ wait_times' = Append(wait_times, WaitOf(e.time, arrival_time[c]))
        /\ start_busy' = [start_busy EXCEPT ![c] = e.time]
        /\ queue' = (queue \ {e}) \cup {Event(e.time, TRUE, eid, "init_serve", c)}
        /\ eid' = eid + 1
        /\ pc' = [pc EXCEPT ![c] = "serving"]
    /\ UNCHANGED <<num_agents, replications, r, phase, all_results, users, put_queue, busy_times,
                   customer_id, arrival_time, usage_since, service_time, inter_arrival, rng, main>>

(* Initialize(serve) processed: draw service_time, yield the timeout *)
StartServe ==
    /\ Popped("init_serve")
    /\ LET e == NextEvent IN
        /\ now' = e.time
        /\ \E d \in Drawn(ServiceDraws) :
              /\ Consume(d)
              /\ service_time' = [service_time EXCEPT ![e.cust] = d]
              /\ queue' = (queue \ {e}) \cup
                            {Event(e.time + d, FALSE, eid, "serve_timeout", e.cust)}
        /\ eid' = eid + 1
    /\ UNCHANGED <<num_agents, replications, r, phase, all_results, users, put_queue, wait_times,
                   busy_times, customer_id, pc, arrival_time, usage_since, wait,
                   start_busy, inter_arrival, main>>

(* serve's timeout processed: the serve generator ends, its Process event
   is scheduled *)
ServeTimeout ==
    /\ Popped("serve_timeout")
    /\ LET e == NextEvent IN
        /\ now' = e.time
        /\ queue' = (queue \ {e}) \cup {Event(e.time, FALSE, eid, "serve_done", e.cust)}
        /\ eid' = eid + 1
    /\ UNCHANGED <<num_agents, replications, r, phase, all_results, users, put_queue, wait_times,
                   busy_times, customer_id, pc, arrival_time, usage_since, wait,
                   start_busy, service_time, inter_arrival, rng, main>>

DoGetFirst(us, c) == Tail(us)

DoGetNothing(us, c) == us

BusyIntervalSwapped(start, end) == <<end, start>>

(* customer: the tuple (start_busy, end_busy) appended to busy_times *)
BusyInterval(start, end) == <<start, end>>

(* Resource._do_get of the Release: the request leaves users *)
DoGet(us, c) == RemoveFirst(us, c)

(* serve's Process event processed: the customer resumes, records its busy
   interval, leaves the with block (release: the request leaves users, the
   Release event is scheduled) and ends (its Process event is scheduled) *)
ServeDone ==
    /\ Popped("serve_done")
    /\ LET e == NextEvent
           c == e.cust IN
        /\ now' = e.time
        /\ busy_times' = Append(busy_times, BusyInterval(start_busy[c], e.time))
        /\ users' = DoGet(users, c)
        /\ queue' = (queue \ {e}) \cup {Event(e.time, FALSE, eid, "release", c),
                                        Event(e.time, FALSE, eid + 1, "proc_done", c)}
        /\ eid' = eid + 2
        /\ pc' = [pc EXCEPT ![c] = "departed"]
    /\ UNCHANGED <<num_agents, replications, r, phase, all_results, put_queue, wait_times,
                   customer_id, arrival_time, usage_since, wait, start_busy, service_time, inter_arrival, rng, main>>

(* the Release event processed: its callback _trigger_put grants the head of
   put_queue if a unit is free *)
ReleaseProcessed ==
    /\ Popped("release")
    /\ LET e == NextEvent
           tp == TriggerPut(users, put_queue) IN
        /\ now' = e.time
        /\ users' = tp.users
        /\ put_queue' = tp.put_queue
        /\ usage_since' = [g \in CustIds |->
                              IF g \in tp.granted THEN e.time ELSE usage_since[g]]
        /\ queue' = (queue \ {e}) \cup {Event(e.time, FALSE, eid, "request", g) : g \in tp.granted}
        /\ eid' = eid + Cardinality(tp.granted)
    /\ UNCHANGED <<num_agents, replications, r, phase, all_results, wait_times, busy_times,
                   customer_id, pc, arrival_time, wait, start_busy, service_time, inter_arrival, rng, main>>

(* the Process event of an ended customer (or setup): nobody waits on it *)
ProcDone ==
    /\ Popped("proc_done")
    /\ LET e == NextEvent IN
        /\ now' = e.time
        /\ queue' = queue \ {e}
    /\ UNCHANGED <<num_agents, replications, r, phase, all_results, eid, users, put_queue, wait_times,
                   busy_times, customer_id, pc, arrival_time, usage_since, wait,
                   start_busy, service_time, inter_arrival, rng, main>>

MetricsOneAgent(wt, bt, agents) ==
    [ avg_wait      |-> IF wt # <<>> THEN <<SumSeq(wt), Len(wt)>> ELSE <<0, 1>>,
      utilization   |-> <<SumBusy(bt), Horizon>>,
      num_served    |-> Len(wt),
      avg_queue_len |-> IF wt # <<>> THEN <<60 * SumSeq(wt), Horizon>> ELSE <<0, 1>> ]

MetricsCountsQueued(wt, bt, agents) ==
    [ avg_wait      |-> IF wt # <<>> THEN <<SumSeq(wt), Len(wt)>> ELSE <<0, 1>>,
      utilization   |-> <<SumBusy(bt), agents * Horizon>>,
      num_served    |-> Len(wt) + Len(put_queue),
      avg_queue_len |-> IF wt # <<>> THEN <<60 * SumSeq(wt), Horizon>> ELSE <<0, 1>> ]

MetricsUnguardedMean(wt, bt, agents) ==
    [ avg_wait      |-> <<SumSeq(wt), Len(wt)>>,
      utilization   |-> <<SumBusy(bt), agents * Horizon>>,
      num_served    |-> Len(wt),
      avg_queue_len |-> <<60 * SumSeq(wt), Horizon>> ]

(* run_scenario's metrics of one replication; a ratio is <<numerator, denominator>> *)
Metrics(wt, bt, agents) ==
    [ avg_wait      |-> IF wt # <<>> THEN <<SumSeq(wt), Len(wt)>> ELSE <<0, 1>>,
      utilization   |-> <<SumBusy(bt), agents * Horizon>>,
      num_served    |-> Len(wt),
      avg_queue_len |-> IF wt # <<>> THEN <<60 * SumSeq(wt), Horizon>> ELSE <<0, 1>> ]

(* the until event processed: env.run returns at the horizon; the metrics
   are computed and appended to all_results; next iteration of the for loop,
   or the end of the loop ("returned") *)
Stop ==
    /\ Popped("stop")
    /\ LET e == NextEvent IN
        /\ now' = e.time
        /\ queue' = queue \ {e}
    /\ all_results' = Append(all_results, Metrics(wait_times, busy_times, num_agents))
    /\ r' = r + 1
    /\ phase' = IF r + 1 < replications THEN "start" ELSE "returned"
    /\ UNCHANGED <<num_agents, replications, eid, users, put_queue, wait_times, busy_times,
                   customer_id, pc, arrival_time, usage_since, wait, start_busy, service_time, inter_arrival, rng, main>>

Next ==
    \/ BeginReplication
    \/ StartSetup
    \/ Arrival
    \/ StartCustomer
    \/ RequestGranted
    \/ StartServe
    \/ ServeTimeout
    \/ ServeDone
    \/ ReleaseProcessed
    \/ ProcDone
    \/ Stop

Spec == Init /\ [][Next]_vars

(* run_scenario called with any configuration: num_agents and the arrival
   rate may be zero or negative *)
InitConfig ==
    /\ num_agents \in -1 .. MaxAgents
    /\ replications = 1
    /\ arrival_rate \in {-1, 0, 1}
    /\ scenarios = <<>>
    /\ NothingRun

(* the failed Process event of setup processed: Environment.step re-raises
   the exception, which leaves env.run and run_scenario *)
ProcFailed ==
    /\ Popped("proc_failed")
    /\ LET e == NextEvent IN
        /\ now' = e.time
        /\ queue' = queue \ {e}
    /\ phase' = "raised"
    /\ UNCHANGED <<num_agents, replications, r, all_results, eid, users, put_queue, wait_times,
                   busy_times, customer_id, pc, arrival_time, usage_since, wait,
                   start_busy, service_time, inter_arrival, rng, main>>

NextConfig == Next \/ ProcFailed

SpecConfig == InitConfig /\ [][NextConfig]_vars

(* one call of run_scenario with two replications *)
InitReps ==
    /\ num_agents \in 1 .. MaxAgents
    /\ replications = 2
    /\ arrival_rate = 1
    /\ scenarios = <<>>
    /\ NothingRun

SpecReps == InitReps /\ [][Next]_vars

(* __main__: two scenarios with the same arrival rate, the second with more
   agents (Baseline and More Agents).  Both calls of run_scenario seed
   replication r with RANDOM_SEED + r, so the second call draws the stream of
   the first again.  The arrival rate is the one that gives gaps and service
   times the same scale (12 per hour against MEAN_SERVICE_MINUTES = 5), so a
   value of the stream is the same number of minutes in either use *)
InitPair ==
    /\ num_agents \in 1 .. (MaxAgents - 1)
    /\ \E more \in 1 .. MaxAgents :
          /\ more > num_agents
          /\ scenarios = <<more>>
    /\ replications = 1
    /\ arrival_rate = 1
    /\ NothingRun

(* __main__'s for loop: run_scenario returned, the next scenario is run *)
NextScenario ==
    /\ phase = "returned"
    /\ scenarios # <<>>
    /\ outcomes' = Append(outcomes, [agents |-> num_agents, results |-> all_results])
    /\ num_agents' = Head(scenarios)
    /\ scenarios' = Tail(scenarios)
    /\ r' = 0
    /\ all_results' = <<>>
    /\ phase' = "start"
    /\ UNCHANGED <<replications, now, queue, eid, users, put_queue, wait_times, busy_times,
                   customer_id, pc, arrival_time, usage_since, wait, start_busy,
                   service_time, inter_arrival, rng, arrival_rate>>

NextPair == Next \/ NextScenario

SpecPair == InitPair /\ [][NextPair]_vars

----------------------------------------------------------------------------
(* Helpers of the claims *)

Running == phase = "running"
Ended == phase \in {"start", "returned"} /\ r > 0
Spawned(c) == pc[c] # "none"
Granted(c) == usage_since[c] # Unset
PendingAtNow(kind) == \E e \in queue : e.kind = kind /\ e.time = now
Requested(c) == arrival_time[c] # Unset
Departed == {c \in CustIds : pc[c] = "departed"}

(* C1: in every reachable state the number of customers holding an agent is
   at most num_agents *)
C1_Capacity == Len(users) <= num_agents

C1_Witness == Len(users) = num_agents /\ put_queue # <<>> /\ busy_times # <<>>

(* C2 as stated: whenever the wait queue is non-empty, the in-use count
   equals the capacity *)
C2_Original == put_queue # <<>> => Len(users) = num_agents

(* C2 amended: whenever the wait queue is non-empty, the in-use count equals
   the capacity, or a Release event is still pending at the current clock
   time (its processing hands the freed agent to the head waiter before the
   clock advances) *)
C2_NoIdleWhileWaiting ==
    put_queue # <<>> =>
        \/ Len(users) = num_agents
        \/ Running /\ PendingAtNow("release")

C2_Witness ==
    /\ put_queue # <<>>
    /\ Len(users) < num_agents
    /\ PendingAtNow("release")

(* C3: agents are granted in FIFO order of the requests.  Customers request
   in the order of their ids; a customer is never granted while a customer
   that requested before it is not, grants are ordered in time, and
   wait_times is appended in customer-arrival order *)
C3_Fifo ==
    /\ \A a, b \in CustIds :
          a < b =>
            /\ Requested(b) => Requested(a) /\ arrival_time[a] <= arrival_time[b]
            /\ Granted(b) => Granted(a) /\ usage_since[a] <= usage_since[b]
            /\ wait[b] # Unset => wait[a] # Unset
    /\ \A i \in 1 .. Len(wait_times) : wait_times[i] = wait[i - 1]
    /\ \A i \in 1 .. Len(put_queue) :
          /\ ~Granted(put_queue[i])
          /\ \A j \in 1 .. (i - 1) : put_queue[j] < put_queue[i]

C3_Witness ==
    \E a, b \in CustIds :
        /\ a < b
        /\ wait[a] # Unset
        /\ wait[b] # Unset
        /\ wait[b] > 0
        /\ Len(put_queue) > 0

(* C4 as stated, at the end of the replication: every customer admitted
   before the horizon has been granted an agent, finished its service,
   released the agent and recorded its busy interval *)
C4_Original == Ended => \A c \in CustIds : Spawned(c) => pc[c] = "departed"

(* C4 amended: the replication stops when the clock reaches the horizon.  At
   its end every admitted customer either has completed (with a busy
   interval that ends before the horizon), or is cut off in service with its
   service completion scheduled at or after the horizon, or is cut off
   waiting in the queue while every agent is held *)
C4_CompletesOnlyBeforeHorizon ==
    Ended =>
        /\ now = Horizon
        /\ \A e \in queue : e.time >= Horizon
        /\ \A c \in CustIds :
              Spawned(c) =>
                \/ /\ pc[c] = "departed"
                   /\ start_busy[c] + service_time[c] < Horizon
                   /\ \E i \in 1 .. Len(busy_times) :
                         busy_times[i] = <<start_busy[c], start_busy[c] + service_time[c]>>
                \/ /\ pc[c] = "serving"
                   /\ start_busy[c] + service_time[c] >= Horizon
                   /\ \E e \in queue :
                         /\ e.kind = "serve_timeout"
                         /\ e.cust = c
                         /\ e.time = start_busy[c] + service_time[c]
                \/ /\ pc[c] = "queued"
                   /\ \E i \in 1 .. Len(put_queue) : put_queue[i] = c
                   /\ Len(users) = num_agents

C4_Witness ==
    /\ Ended
    /\ \E a, b, c \in CustIds :
          pc[a] = "departed" /\ pc[b] = "serving" /\ pc[c] = "queued"

(* C5: at the end of every replication num_served equals the number of
   customers that completed service (reached DEPARTED) *)
C5_ServedIsDeparted ==
    Ended => all_results[r].num_served = Cardinality(Departed)

(* C6: no customer process is spawned at a clock time at or after the
   horizon: every customer's arrival_time is below SIM_HOURS*60 *)
C6_NoArrivalAtHorizon ==
    \A c \in CustIds :
        /\ pc[c] = "spawned" => now < Horizon
        /\ Requested(c) => arrival_time[c] < Horizon

C6_Witness ==
    /\ Ended
    /\ customer_id < MaxCustomers
    /\ \E c \in CustIds : arrival_time[c] = Horizon - 1
    /\ \E e \in queue : e.kind = "arrival" /\ e.time = Horizon

(* C8: every recorded wait equals the clock time of the grant minus the
   clock time of the arrival and is >= 0; a customer granted on arrival
   records 0; every entry of wait_times is the wait of its customer *)
C8_WaitIsGrantMinusArrival ==
    /\ \A c \in CustIds :
          wait[c] # Unset =>
            /\ Granted(c)
            /\ wait[c] = usage_since[c] - arrival_time[c]
            /\ wait[c] >= 0
            /\ usage_since[c] = start_busy[c]
    /\ \A c \in CustIds : pc[c] = "requested" => usage_since[c] = arrival_time[c]
    /\ \A i \in 1 .. Len(wait_times) :
          /\ wait_times[i] >= 0
          /\ \E c \in CustIds :
                wait[c] # Unset /\ wait_times[i] = usage_since[c] - arrival_time[c]
    /\ Len(wait_times) = Cardinality({c \in CustIds : wait[c] # Unset})

C8_Witness ==
    \E a, b \in CustIds :
        /\ wait[a] = 0
        /\ arrival_time[a] > 0
        /\ wait[b] > 0
        /\ Len(wait_times) >= 2

(* C9 as stated: every recorded busy interval has end_busy > start_busy *)
C9_Original ==
    \A i \in 1 .. Len(busy_times) : busy_times[i][2] > busy_times[i][1]

(* C9 amended: every recorded busy interval has end_busy >= start_busy, with
   end_busy = start_busy + service_time (so equality exactly when the drawn
   service time is 0), and exactly one interval is recorded per customer, at
   the moment it releases its agent *)
C9_BusyIntervals ==
    /\ \A i \in 1 .. Len(busy_times) :
          /\ busy_times[i][2] >= busy_times[i][1]
          /\ \E c \in Departed :
                /\ busy_times[i] = <<start_busy[c], start_busy[c] + service_time[c]>>
                /\ busy_times[i][2] = busy_times[i][1] <=> service_time[c] = 0
    /\ Len(busy_times) = Cardinality(Departed)
    /\ \A c \in Departed :
          /\ \E i \in 1 .. Len(busy_times) :
                busy_times[i] = <<start_busy[c], start_busy[c] + service_time[c]>>
          /\ \A i \in 1 .. Len(users) : users[i] # c

C9_Witness ==
    /\ Len(busy_times) >= 2
    /\ \E i, j \in 1 .. Len(busy_times) :
          /\ busy_times[i][2] = busy_times[i][1]
          /\ busy_times[j][2] > busy_times[j][1]

(* C10: each customer moves through its lifecycle only in the order
   ARRIVED -> (QUEUED) -> IN_SERVICE -> DEPARTED *)
Lifecycle(c) ==
    CASE pc[c] = "none" -> "NONE"
      [] pc[c] \in {"spawned", "requested"} -> "ARRIVED"
      [] pc[c] = "queued" -> "QUEUED"
      [] pc[c] = "serving" -> "IN_SERVICE"
      [] pc[c] = "departed" -> "DEPARTED"

LifecycleOrder ==
    { <<"NONE", "ARRIVED">>, <<"ARRIVED", "QUEUED">>, <<"ARRIVED", "IN_SERVICE">>,
      <<"QUEUED", "IN_SERVICE">>, <<"IN_SERVICE", "DEPARTED">> }

LifecycleStep(c) ==
    /\ Lifecycle(c)' # Lifecycle(c) => <<Lifecycle(c), Lifecycle(c)'>> \in LifecycleOrder
    /\ Lifecycle(c)' = "IN_SERVICE" =>
          /\ Granted(c)'
          /\ \E i \in 1 .. Len(users') : users'[i] = c

(* C10 as stated: the lifecycle order, IN_SERVICE only when granted, and
   QUEUED entered only if no agent is free on arrival (every agent is held
   when the customer requests) *)
C10_Original ==
    [][Running => \A c \in CustIds :
          /\ LifecycleStep(c)
          /\ (Lifecycle(c) # "QUEUED" /\ Lifecycle(c)' = "QUEUED") =>
                Len(users) = num_agents]_vars

(* C10 amended: the lifecycle order, IN_SERVICE only while granted, and
   QUEUED entered only if, on arrival, every agent is held or agents released
   at the same clock time are still being handed over to earlier waiters (the
   wait queue is non-empty and a Release event is pending): such an agent
   goes to the head of the wait queue, not to the arriving customer *)
C10_Lifecycle ==
    [][Running => \A c \in CustIds :
          /\ LifecycleStep(c)
          /\ (Lifecycle(c) # "QUEUED" /\ Lifecycle(c)' = "QUEUED") =>
                \/ Len(users) = num_agents
                \/ put_queue # <<>> /\ PendingAtNow("release")]_vars

C10_Witness ==
    \E a, b \in CustIds :
        /\ pc[a] = "departed"
        /\ wait[a] = 0
        /\ pc[b] = "departed"
        /\ wait[b] > 0

(* the replication that just ended, and its entry of all_results *)
OneArrival == Ended /\ customer_id = 1
LastResult == all_results[r]

(* C11 as stated: a replication in which exactly one customer arrives yields
   avg_wait = 0 and utilization = service_time / (num_agents * horizon), for
   every arrival time below the horizon and every service duration *)
C11_Original ==
    OneArrival =>
        /\ LastResult.avg_wait[1] = 0
        /\ LastResult.utilization = <<service_time[0], num_agents * Horizon>>

(* C11 amended: a replication in which exactly one customer arrives yields
   avg_wait = 0; utilization = service_time / (num_agents * horizon) when the
   service ends before the horizon (arrival + service < horizon), and 0 when
   it does not, because the busy interval is then never recorded *)
C11_SingleArrival ==
    OneArrival =>
        /\ LastResult.avg_wait = <<0, 1>>
        /\ LastResult.utilization =
              <<IF arrival_time[0] + service_time[0] < Horizon
                THEN service_time[0] ELSE 0,
                num_agents * Horizon>>

C11_Witness ==
    /\ OneArrival
    /\ pc[0] = "departed"
    /\ service_time[0] > 0
    /\ num_agents > 1

(* both scenarios of the pair have returned; ratios compared by cross
   multiplication *)
PairDone == phase = "returned" /\ scenarios = <<>> /\ outcomes # <<>>
RatioLeq(x, y) == x[1] * y[2] <= y[1] * x[2]

(* C12: with the arrival rate and the seeded draw stream held fixed, the mean
   wait of a replication with more agents is at most the mean wait of the
   same replication with fewer agents *)
C12_Monotone ==
    PairDone =>
        (outcomes[1].agents < num_agents =>
            RatioLeq(all_results[1].avg_wait, outcomes[1].results[1].avg_wait))

(* C13: a replication in which no customer is granted an agent (wait_times
   is empty) completes and reports avg_wait = 0, avg_queue_len = 0,
   num_served = 0 and utilization = 0 *)
C13_EmptyReplication ==
    (Ended /\ wait_times = <<>>) =>
        /\ Len(all_results) = r
        /\ LastResult.avg_wait = <<0, 1>>
        /\ LastResult.avg_queue_len = <<0, 1>>
        /\ LastResult.num_served = 0
        /\ LastResult.utilization[1] = 0
        /\ LastResult.utilization[2] > 0

C13_Witness == Ended /\ wait_times = <<>> /\ customer_id = 0 /\ inter_arrival = <<Horizon>>

(* C14: run_scenario with a non-positive num_agents or a non-positive arrival
   rate fails before any replication starts: no replication runs, the clock
   is not advanced, no customer is spawned and no replication result is
   recorded *)
C14_FailFast ==
    (num_agents <= 0 \/ arrival_rate <= 0) =>
        /\ phase \in {"start", "raised"}
        /\ now = 0
        /\ customer_id = 0
        /\ all_results = <<>>

(* the event taken from the event queue by a step of the scheduler *)
Resumed == queue \ queue'

(* C15 as stated: processes resume in non-decreasing clock-time order, and
   events of the same clock time resume in registration order, the start of a
   newly spawned customer process included *)
C15_Original ==
    [][Running =>
          \A e \in Resumed :
              /\ now <= now'
              /\ now' = e.time
              /\ \A f \in queue \ {e} :
                    \/ e.time < f.time
                    \/ e.time = f.time /\ e.eid < f.eid]_vars

(* C15 amended: processes resume in non-decreasing clock-time order; among
   events of the same clock time the starts of newly spawned processes (and
   the end of the run) come first, ahead of timeouts, grants and releases
   registered earlier for that time, and within each of the two groups the
   order is the registration order *)
C15_ResumeOrder ==
    [][Running =>
          \A e \in Resumed :
              /\ now <= now'
              /\ now' = e.time
              /\ \A f \in queue \ {e} :
                    \/ e.time < f.time
                    \/ e.time = f.time /\ e.urgent /\ ~f.urgent
                    \/ e.time = f.time /\ e.urgent = f.urgent /\ e.eid < f.eid]_vars

C15_Witness ==
    /\ Running
    /\ \E e, f \in queue :
          /\ e.kind = "init_customer"
          /\ f.kind = "serve_timeout"
          /\ e.time = f.time
          /\ f.eid < e.eid

(* the arrival time before customer c's: the start of the run for customer 0 *)
PreviousArrival(c) == IF c = 0 THEN 0 ELSE arrival_time[c - 1]

(* C16: the clock never decreases, and a timeout of d started at t resumes
   exactly at t + d: every customer is spawned at the previous arrival time
   plus the gap drawn for it, and every busy interval ends, at the current
   clock time, at start_busy plus the service time drawn *)
C16_Timeouts ==
    [][Running =>
          /\ now <= now'
          /\ \A c \in CustIds :
                /\ (pc[c] = "none" /\ pc'[c] = "spawned") =>
                      now' = PreviousArrival(c) + inter_arrival[c + 1]
                /\ (pc[c] = "serving" /\ pc'[c] = "departed") =>
                      /\ now' = start_busy[c] + service_time[c]
                      /\ busy_times' = Append(busy_times, <<start_busy[c], now'>>)]_vars

C16_Witness ==
    /\ Requested(1)
    /\ inter_arrival[2] > 0
    /\ pc[1] = "departed"
    /\ service_time[1] > 0

(* the state run_scenario builds for a replication before env.run processes
   an event *)
FreshStart ==
    /\ now = 0
    /\ queue = {Event(0, TRUE, 0, "init_setup", NoCust), UntilEvent}
    /\ users = <<>>
    /\ put_queue = <<>>
    /\ wait_times = <<>>
    /\ busy_times = <<>>
    /\ customer_id = 0
    /\ rng_pos = 0
    /\ \A c \in CustIds :
          /\ pc[c] = "none"
          /\ arrival_time[c] = Unset
          /\ wait[c] = Unset
          /\ start_busy[c] = Unset

(* C17: every replication starts from a fresh state: clock 0, empty agent
   pool, empty wait queue and event queue but for the replication's own two
   events, empty wait_times and busy_times, customer ids from 0; nothing of
   replication r is left in replication r + 1 *)
C17_FreshReplication ==
    [][(phase = "start" /\ phase' = "running") => FreshStart']_vars

C17_Witness ==
    /\ Running
    /\ r = 1
    /\ all_results[1].num_served = 2
    /\ customer_id = 1
    /\ wait_times = <<0>>
    /\ pc[1] = "none"

(* C18: at the end of a replication every busy interval lies within
   [0, horizon], the total busy time is at most num_agents * horizon, and the
   utilization reported lies in [0, 1] *)
C18_Utilization ==
    Ended =>
        /\ \A i \in 1 .. Len(busy_times) :
              /\ 0 <= busy_times[i][1]
              /\ busy_times[i][1] <= busy_times[i][2]
              /\ busy_times[i][2] <= Horizon
        /\ SumBusy(busy_times) <= num_agents * Horizon
        /\ LastResult.utilization[2] = num_agents * Horizon
        /\ 0 <= LastResult.utilization[1]
        /\ LastResult.utilization[1] <= LastResult.utilization[2]

C18_Witness ==
    /\ Ended
    /\ num_agents = 2
    /\ Len(busy_times) >= 3
    /\ LastResult.utilization[1] >= Horizon

(* customers whose request was granted and who have resumed (in service),
   and customers whose request was granted but who have not resumed yet *)
InService == {c \in CustIds : pc[c] = "serving"}
GrantPending == {c \in CustIds : Granted(c) /\ wait[c] = Unset}

(* C19 as stated: in every reachable state len(busy_times) <= len(wait_times)
   and len(wait_times) - len(busy_times) is the number of customers holding
   an agent, at most num_agents; at the horizon num_served exceeds the number
   of busy intervals by the customers still in service *)
C19_Original ==
    /\ Len(busy_times) <= Len(wait_times)
    /\ Len(wait_times) - Len(busy_times) = Len(users)
    /\ Len(users) <= num_agents
    /\ Ended => LastResult.num_served - Len(busy_times) = Len(users)

(* C19 amended: in every reachable state len(busy_times) <= len(wait_times)
   and len(wait_times) - len(busy_times) is the number of customers in
   service, that is, the customers holding an agent less those just granted
   one who have not resumed yet at the current clock time; it is at most
   num_agents.  At the horizon num_served exceeds the number of busy
   intervals by exactly the customers holding an agent *)
C19_Conservation ==
    /\ Len(busy_times) <= Len(wait_times)
    /\ Len(wait_times) - Len(busy_times) = Cardinality(InService)
    /\ Len(users) = Cardinality(InService) + Cardinality(GrantPending)
    /\ \A c \in GrantPending :
          \E e \in queue : e.kind = "request" /\ e.cust = c /\ e.time = now
    /\ Len(users) <= num_agents
    /\ Ended => LastResult.num_served - Len(busy_times) = Len(users)

C19_Witness ==
    /\ Ended
    /\ Len(users) = 2
    /\ Len(busy_times) >= 1
    /\ LastResult.num_served = Len(busy_times) + 2

(* customers whose wait has been recorded *)
Recorded == {c \in CustIds : wait[c] # Unset}

(* C20: a customer still waiting in the queue when the replication ends has
   added no entry to wait_times or busy_times and is counted in none of the
   metrics: num_served counts the customers spawned less those waiting *)
C20_WaitingNotCounted ==
    Ended =>
        /\ \A i \in 1 .. Len(put_queue) :
              /\ put_queue[i] \notin Recorded
              /\ put_queue[i] \notin Departed
              /\ start_busy[put_queue[i]] = Unset
        /\ Len(wait_times) = Cardinality(Recorded)
        /\ Len(busy_times) = Cardinality(Departed)
        /\ LastResult.num_served = customer_id - Len(put_queue)
        /\ LastResult.avg_wait[1] = SumSeq(wait_times)
        /\ LastResult.utilization[1] = SumBusy(busy_times)

C20_Witness ==
    /\ Ended
    /\ put_queue # <<>>
    /\ arrival_time[Head(put_queue)] < Horizon - 1
    /\ Len(wait_times) >= 2
====
